---- MODULE Spec2Model ----
(***************************************************************************)
(* Video proctoring: the in-memory session/event store and its API routes, *)
(* the detection callbacks of the VideoProctoring component (the debounce  *)
(* logic) and the recording lifecycle of that component.                   *)
(***************************************************************************)
EXTENDS Integers, Sequences, FiniteSets, TLC

VARIABLES
    \* ---- server: src/lib/database.ts (the singleton db) ----
    sessions,        \* Map<string, ProctoringSession>
    events,          \* Map<string, ProctoringEvent[]>
    serverNow,       \* Date.now() of the server
    response,        \* the response of the latest API request
    appendLog,       \* the events db.addEvent has returned, in call order
    \* ---- client: src/components/video-proctoring.tsx ----
    pc,                    \* where startRecording / stopRecording stands
    startSessionId,        \* the local sessionId of a running startRecording
    isRecording,
    currentSessionId,
    handlerSessionId,      \* currentSessionId as the memoized detection
                           \* callbacks see it
    clientEvents,          \* the events state: the displayed event list
    faceDetectionStats,
    objectDetectionStats,
    clientNow,             \* Date.now() of the browser
    videoReadyState,       \* videoRef.current.readyState
    faceTimer,             \* due time of the live face interval, or Null
    objectTimer,           \* due time of the live object interval, or Null
    faceInflight,          \* detector calls awaited by detectFaces
    objectInflight,        \* detector calls awaited by detectObjects
    objectModel,           \* "loading", "loaded" or "failed"
    faceIntervals,         \* the intervals of useFaceDetection: those that
                           \* are live, detectionIntervalRef.current and
                           \* whether the effect has a cleanup
    objectIntervals,       \* the same of useObjectDetection
    \* ---- observation of the detection callbacks ----
    tickCount,             \* number of handleFaceDetection calls so far
    lastTick,              \* the latest call: its time, result and events
    awayRun,               \* length of the current run of away results
    awayRunFocus,          \* focus_loss events emitted during that run
    lastFaceSeenAt,        \* time of the latest result with a face, or of
                           \* the start of monitoring
    lastObjectTick,        \* the latest handleObjectDetection call: its
                           \* time, predictions and events
    runStartedAt,          \* time the monitoring run began, or Null
    episodeStartedAt,      \* time of the first result of the current run
                           \* of away results, or Null
    lastFocusLossAt,       \* time of the latest focus_loss event of that
                           \* run of away results, or Null
    failedTicks,           \* detector calls that have failed so far
    \* ---- requests of the pollers and reads, as the server handles them ----
    pending,               \* per poller: POST /api/events requests whose
                           \* handler awaits request.json()
    answered,              \* per poller: requests answered with 200
    lastRead               \* what the latest GET request was answered with

serverVars == <<sessions, events, serverNow, response, appendLog>>
clientVars ==
    <<pc, startSessionId, isRecording, currentSessionId, handlerSessionId,
      clientEvents, faceDetectionStats, objectDetectionStats, clientNow,
      videoReadyState, faceTimer, objectTimer, faceInflight, objectInflight,
      objectModel, faceIntervals, objectIntervals>>
hookVars == <<faceIntervals, objectIntervals>>
reqVars == <<pending, answered, lastRead>>
runVars == <<runStartedAt, episodeStartedAt, lastFocusLossAt>>
tickVars ==
    <<tickCount, lastTick, awayRun, awayRunFocus, lastFaceSeenAt,
      lastObjectTick, runVars, failedTicks>>
seenVars ==
    <<tickCount, lastTick, awayRun, awayRunFocus, lastFaceSeenAt,
      lastObjectTick, runVars, reqVars>>
obsVars == <<seenVars, failedTicks>>
vars == <<serverVars, clientVars, obsVars>>

-----------------------------------------------------------------------------
\* Bounds of the model.

MaxServerClock == 1
MaxSessions == 1
MaxStoreEvents == 2
MaxNameLen == 2
MaxScoreLedger == 11
MaxFaceTicks == 13
MaxDisplayed == 3
MaxClientTicks == 3
MaxInflight == 1
MaxObjectsPerFrame == 2
MaxObjectTicks == 3
MaxRandDraw == 1
MaxPolls == 2
MaxReportLedger == 7
MaxIdSessions == 2
MaxTierLedger == 4
MaxRuns == 2

-----------------------------------------------------------------------------
\* JSON values of request bodies.  A string is a sequence of characters, so
\* that trimming is computed; other strings of the protocol (types,
\* severities, statuses) are TLA+ strings, "" being the absent/empty value.

JStr(s) == [t |-> "string", v |-> s]
JUndefined == [t |-> "undefined", v |-> <<>>]
JNumber == [t |-> "number", v |-> <<>>]

\* JavaScript truthiness of a JSON value: undefined and "" are falsy.
Truthy(j) == IF j.t = "string" THEN j.v # <<>> ELSE j.t # "undefined"

IsWhitespace(c) == c = " "

RECURSIVE trimStart(_)
trimStart(s) ==
    IF s # <<>> /\ IsWhitespace(Head(s)) THEN trimStart(Tail(s)) ELSE s

RECURSIVE trimEnd(_)
trimEnd(s) ==
    IF s # <<>> /\ IsWhitespace(s[Len(s)])
    THEN trimEnd(SubSeq(s, 1, Len(s) - 1))
    ELSE s

\* String.prototype.trim
trim(s) == trimEnd(trimStart(s))

-----------------------------------------------------------------------------
\* src/lib/database.ts.  The store is the record db = [sessions, events];
\* each method yields the store after the call.

\* Map.prototype.set
MapSet(m, k, v) == [x \in DOMAIN m \cup {k} |-> IF x = k THEN v ELSE m[x]]

\* `session_${Date.now()}_${Math.random()...}` and `event_${Date.now()}_...`
SessionId(now, rnd) == <<"session", now, rnd>>
EventId(now, rnd) == <<"event", now, rnd>>

\* { ...a, ...b }
Spread(a, b) ==
    [f \in DOMAIN a \cup DOMAIN b |-> IF f \in DOMAIN b THEN b[f] ELSE a[f]]

severityWeights == [low |-> 2, medium |-> 5, high |-> 10]

RECURSIVE totalDeductions(_)
totalDeductions(sessionEvents) ==
    IF sessionEvents = <<>> THEN 0
    ELSE totalDeductions(SubSeq(sessionEvents, 1, Len(sessionEvents) - 1))
         + severityWeights[sessionEvents[Len(sessionEvents)].severity]

Max(a, b) == IF a >= b THEN a ELSE b

\* The score without its floor at 0.
ScoreWithoutFloor(sessionEvents) == 100 - totalDeductions(sessionEvents)

\* Math.max(0, 100 - totalDeductions)
integrityScoreOf(sessionEvents) == Max(0, 100 - totalDeductions(sessionEvents))

\* The session is created with its end time set.
NewSessionEnded(candidateName, now, rnd) ==
    [id |-> SessionId(now, rnd),
     candidateName |-> candidateName,
     startTime |-> now,
     endTime |-> now,
     status |-> "active",
     totalEvents |-> 0,
     integrityScore |-> 100]

NewSession(candidateName, now, rnd) ==
    [id |-> SessionId(now, rnd),
     candidateName |-> candidateName,
     startTime |-> now,
     status |-> "active",
     totalEvents |-> 0,
     integrityScore |-> 100]

createSession(db, candidateName, now, rnd) ==
    LET session == NewSession(candidateName, now, rnd) IN
    [sessions |-> MapSet(db.sessions, session.id, session),
     events |-> MapSet(db.events, session.id, <<>>)]

\* The update also empties the event list of the session.
updateSessionClearingEvents(db, sessionId, updates) ==
    LET updatedSession == Spread(db.sessions[sessionId], updates) IN
    [sessions |-> MapSet(db.sessions, sessionId, updatedSession),
     events |-> MapSet(db.events, sessionId, <<>>)]

\* updateSession(sessionId, updates), for a session that exists (the caller
\* answers 404 when it returns null).
updateSession(db, sessionId, updates) ==
    LET updatedSession == Spread(db.sessions[sessionId], updates) IN
    [db EXCEPT !.sessions = MapSet(db.sessions, sessionId, updatedSession)]

\* this.events.get(sessionId) || []
EventsOf(db, sessionId) ==
    IF sessionId \in DOMAIN db.events THEN db.events[sessionId] ELSE <<>>

\* { ...event, id, sessionId }: the event addEvent stores and returns
FullEvent(sessionId, event, now, rnd) ==
    Spread(event, [id |-> EventId(now, rnd), sessionId |-> sessionId])

\* The session stats are computed from the list as it was read before the
\* push.
addEventStaleStats(db, sessionId, event, now, rnd) ==
    LET fullEvent == FullEvent(sessionId, event, now, rnd)
        readEvents == EventsOf(db, sessionId)
        sessionEvents == Append(readEvents, fullEvent)
    IN
    [sessions |->
        IF sessionId \in DOMAIN db.sessions
        THEN MapSet(db.sessions, sessionId,
                 Spread(db.sessions[sessionId],
                        [totalEvents |-> Len(readEvents),
                         integrityScore |-> integrityScoreOf(readEvents)]))
        ELSE db.sessions,
     events |-> MapSet(db.events, sessionId, sessionEvents)]

\* The event is put at the front of the list (unshift for push).
addEventAtFront(db, sessionId, event, now, rnd) ==
    LET fullEvent == FullEvent(sessionId, event, now, rnd)
        sessionEvents == <<fullEvent>> \o EventsOf(db, sessionId)
    IN
    [sessions |->
        IF sessionId \in DOMAIN db.sessions
        THEN MapSet(db.sessions, sessionId,
                 Spread(db.sessions[sessionId],
                        [totalEvents |-> Len(sessionEvents),
                         integrityScore |-> integrityScoreOf(sessionEvents)]))
        ELSE db.sessions,
     events |-> MapSet(db.events, sessionId, sessionEvents)]

addEvent(db, sessionId, event, now, rnd) ==
    LET fullEvent == FullEvent(sessionId, event, now, rnd)
        sessionEvents == Append(EventsOf(db, sessionId), fullEvent)
    IN
    [sessions |->
        IF sessionId \in DOMAIN db.sessions
        THEN MapSet(db.sessions, sessionId,
                 Spread(db.sessions[sessionId],
                        [totalEvents |-> Len(sessionEvents),
                         integrityScore |-> integrityScoreOf(sessionEvents)]))
        ELSE db.sessions,
     events |-> MapSet(db.events, sessionId, sessionEvents)]

getSession(db, sessionId) ==
    IF sessionId \in DOMAIN db.sessions THEN <<db.sessions[sessionId]>>
    ELSE <<>>

getEvents(db, sessionId) == EventsOf(db, sessionId)

getEventsByType(db, sessionId, type) ==
    SelectSeq(EventsOf(db, sessionId), LAMBDA event : event.type = type)

\* Math.round(duration / 1000) of a duration in milliseconds
RoundSeconds(duration) == (duration + 500) \div 1000

\* getSessionStats(sessionId): <<>> is null; eventsPerMinute is left to the
\* report's metadata.
getSessionStats(db, sessionId, now) ==
    IF sessionId \notin DOMAIN db.sessions THEN <<>>
    ELSE LET evts == EventsOf(db, sessionId)
             session == db.sessions[sessionId]
         IN <<[session |-> session,
               events |-> evts,
               eventsByType |->
                   [type \in {"focus_loss", "no_face", "multiple_faces",
                              "suspicious_object"} |->
                       Len(SelectSeq(evts, LAMBDA e : e.type = type))],
               eventsBySeverity |->
                   [severity \in {"low", "medium", "high"} |->
                       Len(SelectSeq(evts, LAMBDA e : e.severity = severity))],
               duration |->
                   RoundSeconds((IF "endTime" \in DOMAIN session
                                 THEN session.endTime ELSE now)
                                - session.startTime)]>>

-----------------------------------------------------------------------------
\* API routes: each yields the store after the request and the status of
\* the response.

\* POST /api/sessions
apiSessionsPOST(db, candidateName, now, rnd) ==
    IF ~Truthy(candidateName) \/ candidateName.t # "string"
    THEN [db |-> db, status |-> 400]
    ELSE [db |-> createSession(db, trim(candidateName.v), now, rnd),
          status |-> 200]

validTypes == {"focus_loss", "no_face", "multiple_faces", "suspicious_object"}
validSeverities == {"low", "medium", "high"}

\* The severity of a request body: undefined when the body has none, which
\* is falsy as "" is.
BodySeverity(body) ==
    IF "severity" \in DOMAIN body THEN body.severity ELSE ""

\* The event POST /api/events hands to db.addEvent.
EventOfBody(body, now) ==
    [type |-> body.type,
     timestamp |-> now,
     description |-> body.description,
     severity |-> IF BodySeverity(body) # "" THEN BodySeverity(body)
                  ELSE "medium"]

\* The route refuses an event for a session that is not active.
apiEventsPOSTActiveOnly(db, body, now, rnd) ==
    IF body.sessionId = <<>> \/ body.type = "" \/ body.description = <<>>
    THEN [db |-> db, status |-> 400, event |-> <<>>]
    ELSE IF body.type \notin validTypes
    THEN [db |-> db, status |-> 400, event |-> <<>>]
    ELSE IF BodySeverity(body) # "" /\ BodySeverity(body) \notin validSeverities
    THEN [db |-> db, status |-> 400, event |-> <<>>]
    ELSE IF /\ body.sessionId \in DOMAIN db.sessions
            /\ db.sessions[body.sessionId].status # "active"
    THEN [db |-> db, status |-> 409, event |-> <<>>]
    ELSE [db |-> addEvent(db, body.sessionId, EventOfBody(body, now), now, rnd),
          status |-> 200,
          event |-> <<FullEvent(body.sessionId, EventOfBody(body, now),
                                now, rnd)>>]

\* POST /api/events; body = [sessionId, type, description, severity]; an
\* absent field is <<>> (sessionId, description), "" (type) or left out
\* (severity).  A description is the sequence of the parts of its template.
\* The response carries the event that addEvent returned.
apiEventsPOST(db, body, now, rnd) ==
    IF body.sessionId = <<>> \/ body.type = "" \/ body.description = <<>>
    THEN [db |-> db, status |-> 400, event |-> <<>>]
    ELSE IF body.type \notin validTypes
    THEN [db |-> db, status |-> 400, event |-> <<>>]
    ELSE IF BodySeverity(body) # "" /\ BodySeverity(body) \notin validSeverities
    THEN [db |-> db, status |-> 400, event |-> <<>>]
    ELSE [db |-> addEvent(db, body.sessionId, EventOfBody(body, now), now, rnd),
          status |-> 200,
          event |-> <<FullEvent(body.sessionId, EventOfBody(body, now),
                                now, rnd)>>]

\* PATCH /api/sessions/[sessionId]
apiSessionPATCH(db, sessionId, updates) ==
    IF sessionId \notin DOMAIN db.sessions
    THEN [db |-> db, status |-> 404]
    ELSE [db |-> updateSession(db, sessionId, updates), status |-> 200]

\* GET /api/sessions/[sessionId]
apiSessionGET(db, sessionId) ==
    IF getSession(db, sessionId) = <<>>
    THEN [route |-> "GET /api/sessions/[sessionId]", status |-> 404]
    ELSE [route |-> "GET /api/sessions/[sessionId]", status |-> 200,
          session |-> getSession(db, sessionId)[1]]

TierExcellent ==
    "Excellent interview integrity maintained throughout the session."
TierGood == "Good overall performance with minor integrity concerns."
TierModerate == "Moderate integrity issues detected. Review flagged events."
TierSignificant ==
    "Significant integrity concerns. Manual review strongly recommended."
AdviceFocus ==
    "Candidate frequently lost focus. Consider environment assessment."
AdviceObjects ==
    "Suspicious objects detected. Verify candidate workspace setup."
AdviceFaces ==
    "Multiple faces detected. Investigate potential unauthorized assistance."
AdviceHigh ==
    "Multiple high-severity events recorded. Detailed investigation required."

\* recommendations.push(text) under a condition
PushIf(condition, text) == IF condition THEN <<text>> ELSE <<>>

\* The advisory of high-severity events comes before the others.
generateRecommendationsHighFirst(stats) ==
    <<IF stats.session.integrityScore >= 90 THEN TierExcellent
      ELSE IF stats.session.integrityScore >= 70 THEN TierGood
      ELSE IF stats.session.integrityScore >= 50 THEN TierModerate
      ELSE TierSignificant>>
    \o PushIf(stats.eventsBySeverity.high > 2, AdviceHigh)
    \o PushIf(stats.eventsByType.focus_loss > 3, AdviceFocus)
    \o PushIf(stats.eventsByType.suspicious_object > 0, AdviceObjects)
    \o PushIf(stats.eventsByType.multiple_faces > 0, AdviceFaces)

\* generateRecommendations(stats), the same in both report routes
generateRecommendations(stats) ==
    <<IF stats.session.integrityScore >= 90 THEN TierExcellent
      ELSE IF stats.session.integrityScore >= 70 THEN TierGood
      ELSE IF stats.session.integrityScore >= 50 THEN TierModerate
      ELSE TierSignificant>>
    \o PushIf(stats.eventsByType.focus_loss > 3, AdviceFocus)
    \o PushIf(stats.eventsByType.suspicious_object > 0, AdviceObjects)
    \o PushIf(stats.eventsByType.multiple_faces > 0, AdviceFaces)
    \o PushIf(stats.eventsBySeverity.high > 2, AdviceHigh)

\* The report that GET /api/reports/[sessionId] and the batch route build
\* from the stats (the duration as seconds, before its formatting).
ReportOf(stats) ==
    [session |-> stats.session,
     summary |->
         [candidateName |-> stats.session.candidateName,
          duration |-> stats.duration,
          totalEvents |-> Len(stats.events),
          integrityScore |-> stats.session.integrityScore,
          status |-> stats.session.status],
     eventBreakdown |->
         [byType |-> stats.eventsByType, bySeverity |-> stats.eventsBySeverity],
     timeline |->
         [i \in 1 .. Len(stats.events) |->
             [timestamp |-> stats.events[i].timestamp,
              type |-> stats.events[i].type,
              description |-> stats.events[i].description,
              severity |-> stats.events[i].severity]],
     recommendations |-> generateRecommendations(stats)]

\* GET /api/events?sessionId=...&type=...; an absent parameter is <<>>
\* (sessionId) or "" (type).
apiEventsGET(db, sessionId, type) ==
    IF sessionId = <<>>
    THEN [route |-> "GET /api/events", status |-> 400]
    ELSE [route |-> "GET /api/events", status |-> 200,
          events |-> IF type # "" THEN getEventsByType(db, sessionId, type)
                     ELSE getEvents(db, sessionId)]

\* GET /api/reports/[sessionId]
apiReportGET(db, sessionId, now) ==
    IF getSessionStats(db, sessionId, now) = <<>>
    THEN [route |-> "GET /api/reports/[sessionId]", status |-> 404]
    ELSE [route |-> "GET /api/reports/[sessionId]", status |-> 200,
          report |-> ReportOf(getSessionStats(db, sessionId, now)[1])]

\* The bands are bounded from below by >.
IntegrityLabelStrict(report) ==
    IF report.summary.integrityScore > 90 THEN "Excellent Integrity"
    ELSE IF report.summary.integrityScore > 70 THEN "Good Integrity"
    ELSE IF report.summary.integrityScore > 50 THEN "Moderate Concerns"
    ELSE "Significant Issues"

\* src/components/session-report.tsx: the label the Integrity Assessment
\* card shows for a report.
IntegrityLabel(report) ==
    IF report.summary.integrityScore >= 90 THEN "Excellent Integrity"
    ELSE IF report.summary.integrityScore >= 70 THEN "Good Integrity"
    ELSE IF report.summary.integrityScore >= 50 THEN "Moderate Concerns"
    ELSE "Significant Issues"

\* The store as it stands.
Db == [sessions |-> sessions, events |-> events]

\* The server answers a request: the store and the response change.
Served(route, r) ==
    /\ sessions' = r.db.sessions
    /\ events' = r.db.events
    /\ response' = [route |-> route, status |-> r.status]
    /\ appendLog' = IF "event" \in DOMAIN r THEN appendLog \o r.event
                    ELSE appendLog

PostSessions(candidateName, rnd) ==
    /\ Served("POST /api/sessions",
              apiSessionsPOST(Db, candidateName, serverNow, rnd))
    /\ UNCHANGED <<serverNow, clientVars, obsVars>>

PostEvents(body, rnd) ==
    /\ Served("POST /api/events", apiEventsPOST(Db, body, serverNow, rnd))
    /\ UNCHANGED <<serverNow, clientVars, obsVars>>

PatchSession(sessionId, updates) ==
    /\ Served("PATCH /api/sessions/[sessionId]",
              apiSessionPATCH(Db, sessionId, updates))
    /\ UNCHANGED <<serverNow, clientVars, obsVars>>

\* A GET request is answered: the store is only read.
GetSession(sessionId) ==
    /\ lastRead' = <<apiSessionGET(Db, sessionId)>>
    /\ UNCHANGED <<serverVars, clientVars, tickVars, pending, answered>>

GetEvents(sessionId, type) ==
    /\ lastRead' = <<apiEventsGET(Db, sessionId, type)>>
    /\ UNCHANGED <<serverVars, clientVars, tickVars, pending, answered>>

GetReport(sessionId) ==
    /\ lastRead' = <<apiReportGET(Db, sessionId, serverNow)>>
    /\ UNCHANGED <<serverVars, clientVars, tickVars, pending, answered>>

\* The server's clock advances.
ServerClockTick ==
    /\ serverNow < MaxServerClock
    /\ serverNow' = serverNow + 1
    /\ UNCHANGED <<sessions, events, response, appendLog, clientVars,
                   obsVars>>

-----------------------------------------------------------------------------
\* src/components/video-proctoring.tsx: the detection callbacks.

\* null, of a value that is a number or null
Null == -1

FaceInterval == 1000
ObjectInterval == 2000
NoFaceThreshold == 10000
LookAwayThreshold == 5000

\* The events state entry that addEvent builds.
ClientEvent(type, description, severity, now) ==
    [id |-> now, type |-> type, timestamp |-> now,
     description |-> description, severity |-> severity]

\* The test leaves out result.faceCount === 0.
NoFaceDueAnyCount(prev, result, now) ==
    now - prev.lastFaceTime > NoFaceThreshold

\* prev.lastFaceTime is compared with the threshold by >=.
NoFaceDueAtThreshold(prev, result, now) ==
    result.faceCount = 0 /\ now - prev.lastFaceTime >= NoFaceThreshold

\* result.faceCount === 0 && now - prev.lastFaceTime > 10000
NoFaceDue(prev, result, now) ==
    result.faceCount = 0 /\ now - prev.lastFaceTime > NoFaceThreshold

\* The description names the count of the previous result.
MultipleFacesOfPrev(prev, result) ==
    <<prev.currentFaces, " faces detected in frame">>

\* `${result.faceCount} faces detected in frame`
MultipleFacesDescription(prev, result) ==
    <<result.faceCount, " faces detected in frame">>

\* The episode start is kept at its first away result after an emission.
KeepEpisodeStart(newStats, now) == newStats

\* newStats.lookAwayStartTime = now
ResetEpisodeStart(newStats, now) ==
    [newStats EXCEPT !.lookAwayStartTime = now]

\* The timer is cleared only by an emission.
KeepLookAwayStartTime(prev, result, now) ==
    IF result.isLookingAway /\ ~prev.isLookingAway THEN now
    ELSE prev.lookAwayStartTime

\* lookAwayStartTime of newStats
newLookAwayStartTime(prev, result, now) ==
    IF result.isLookingAway /\ ~prev.isLookingAway THEN now
    ELSE IF ~result.isLookingAway THEN Null
    ELSE prev.lookAwayStartTime

\* The updater that handleFaceDetection hands to setFaceDetectionStats:
\* the new stats and the events it adds, in the order of the addEvent calls.
handleFaceDetection(prev, result, now) ==
    LET newStats ==
            [currentFaces |-> result.faceCount,
             isLookingAway |-> result.isLookingAway,
             confidence |-> result.confidence,
             lastFaceTime |-> IF result.faceCount > 0 THEN now
                              ELSE prev.lastFaceTime,
             lookAwayStartTime |-> newLookAwayStartTime(prev, result, now)]
        noFace ==
            IF NoFaceDue(prev, result, now)
            THEN <<ClientEvent("no_face",
                       <<"No face detected for more than 10 seconds">>,
                       "high", now)>>
            ELSE <<>>
        multipleFaces ==
            IF result.faceCount > 1
            THEN <<ClientEvent("multiple_faces",
                       MultipleFacesDescription(prev, result), "high", now)>>
            ELSE <<>>
        lookedAway ==
            /\ newStats.lookAwayStartTime # Null
            /\ newStats.lookAwayStartTime # 0
            /\ now - newStats.lookAwayStartTime > LookAwayThreshold
        focusLoss ==
            IF lookedAway
            THEN <<ClientEvent("focus_loss",
                       <<"Candidate looked away from screen for more than 5 seconds">>,
                       "medium", now)>>
            ELSE <<>>
    IN
    [stats |-> IF lookedAway THEN ResetEpisodeStart(newStats, now)
               ELSE newStats,
     emitted |-> noFace \o multipleFaces \o focusLoss]

\* src/components/object-detection.tsx
SUSPICIOUS_CLASSES ==
    {"cell phone", "book", "laptop", "keyboard", "mouse", "remote",
     "scissors", "teddy bear", "bottle", "cup"}

\* String.prototype.toLowerCase, on the labels of the model.
toLowerCase(c) == IF c = "Cell Phone" THEN "cell phone" ELSE c

\* Confidences are in thousandths: obj.confidence > 0.5
IsSuspicious(obj) ==
    toLowerCase(obj.class) \in SUSPICIOUS_CLASSES /\ obj.confidence > 500

\* detectObjects: the result handed to onObjectDetection
ObjectResult(predictions) ==
    [objects |-> predictions,
     suspiciousObjects |-> SelectSeq(predictions, IsSuspicious)]

\* Math.round(obj.confidence * 100)
RoundPercent(confidence) == (confidence + 5) \div 10

\* The updater that handleObjectDetection hands to setObjectDetectionStats.
handleObjectDetection(result, now) ==
    [stats |->
        [currentObjects |->
             [i \in 1 .. Len(result.objects) |-> result.objects[i].class],
         suspiciousCount |-> Len(result.suspiciousObjects),
         lastDetectionTime |-> now],
     emitted |->
        [i \in 1 .. Len(result.suspiciousObjects) |->
            ClientEvent("suspicious_object",
                <<result.suspiciousObjects[i].class, " detected (",
                  RoundPercent(result.suspiciousObjects[i].confidence),
                  "% confidence)">>,
                "high", now)]]

\* useCallback(fn, []): the dependency list is empty, so a later render never
\* replaces the callback of the first render, nor what it closes over.
useCallbackKeeps == TRUE
Memoized(kept, rendered) == IF useCallbackKeeps THEN kept ELSE rendered

\* logEventToBackend, for the events of one callback, as the memoized
\* callback's addEvent reaches it: nothing is sent when the currentSessionId it
\* sees is null; a request sent is answered at once.
RECURSIVE logEventsToBackend(_, _, _, _)
logEventsToBackend(served, sessionId, emitted, now) ==
    IF emitted = <<>> \/ sessionId = <<>> THEN served
    ELSE LET r == apiEventsPOST(served.db,
                      [sessionId |-> sessionId,
                       type |-> Head(emitted).type,
                       description |-> Head(emitted).description,
                       severity |-> Head(emitted).severity],
                      now, 0)
         IN logEventsToBackend(
                [db |-> r.db, status |-> r.status,
                 event |-> served.event \o r.event],
                sessionId, Tail(emitted), now)

\* addEvent for the events of one callback: the displayed list grows and
\* logEventToBackend is called for each.
AddEvents(emitted) ==
    /\ clientEvents' = clientEvents \o emitted
    /\ LET served == logEventsToBackend(
                         [db |-> Db, status |-> 0, event |-> <<>>],
                         handlerSessionId, emitted, serverNow)
       IN /\ sessions' = served.db.sessions
          /\ events' = served.db.events
          /\ appendLog' = appendLog \o served.event
          /\ response' = IF served.status = 0 THEN response
                         ELSE [route |-> "POST /api/events",
                               status |-> served.status]
    /\ UNCHANGED serverNow

CountType(emitted, type) ==
    Cardinality({i \in 1 .. Len(emitted) : emitted[i].type = type})

\* onFaceDetection(result) at time now.
FaceCallback(result, now) ==
    LET out == handleFaceDetection(faceDetectionStats, result, now) IN
    /\ faceDetectionStats' = out.stats
    /\ AddEvents(out.emitted)
    /\ tickCount' = tickCount + 1
    /\ lastTick' = <<[at |-> now, result |-> result, emitted |-> out.emitted]>>
    /\ awayRun' = IF result.isLookingAway THEN awayRun + 1 ELSE 0
    /\ awayRunFocus' =
           IF result.isLookingAway
           THEN awayRunFocus + CountType(out.emitted, "focus_loss")
           ELSE 0
    /\ lastFaceSeenAt' = IF result.faceCount > 0 THEN now ELSE lastFaceSeenAt
    /\ episodeStartedAt' =
           IF ~result.isLookingAway THEN Null
           ELSE IF awayRun = 0 THEN now
           ELSE episodeStartedAt
    /\ lastFocusLossAt' =
           IF ~result.isLookingAway THEN Null
           ELSE IF CountType(out.emitted, "focus_loss") > 0 THEN now
           ELSE IF awayRun = 0 THEN Null
           ELSE lastFocusLossAt
    /\ UNCHANGED <<objectDetectionStats, lastObjectTick, runStartedAt,
                   reqVars>>

\* onObjectDetection(result) at time now.
ObjectCallback(predictions, now) ==
    LET out == handleObjectDetection(ObjectResult(predictions), now) IN
    /\ objectDetectionStats' = out.stats
    /\ AddEvents(out.emitted)
    /\ lastObjectTick' =
           <<[at |-> now, predictions |-> predictions, emitted |-> out.emitted]>>
    /\ UNCHANGED <<faceDetectionStats, tickCount, lastTick, awayRun,
                   awayRunFocus, lastFaceSeenAt, runVars, reqVars>>

-----------------------------------------------------------------------------
\* The recording lifecycle and the two pollers.

InitialClock == 1000

\* A hook that has set no interval.
NoIntervals == [live |-> {}, ref |-> Null, cleanup |-> FALSE]

\* clearInterval(detectionIntervalRef.current), if the ref is set
ClearRef(hook) ==
    IF hook.ref # Null THEN [hook EXCEPT !.live = @ \ {hook.ref}] ELSE hook

\* The effect neither runs a cleanup nor clears the interval of the ref
\* when its inputs say not to poll.
useEffectIntervalLeaking(hook, enabled) ==
    IF ~enabled THEN [hook EXCEPT !.ref = Null, !.cleanup = FALSE]
    ELSE LET id == CHOOSE i \in 1 .. (Cardinality(hook.live) + 1) :
                       i \notin hook.live
         IN [live |-> hook.live \cup {id}, ref |-> id, cleanup |-> TRUE]

\* The effect of a detection hook runs again because one of its inputs
\* (isActive, videoElement, isModelLoaded, the callback) has changed: the
\* cleanup of the previous run, if it returned one, then the body, which
\* clears the interval of the ref when the inputs say not to poll and sets a
\* new interval otherwise.
useEffectInterval(hook, enabled) ==
    LET cleaned == IF hook.cleanup THEN ClearRef(hook) ELSE hook IN
    IF ~enabled
    THEN [live |-> ClearRef(cleaned).live, ref |-> Null, cleanup |-> FALSE]
    ELSE LET id == CHOOSE i \in 1 .. (Cardinality(cleaned.live) + 1) :
                       i \notin cleaned.live
         IN [live |-> cleaned.live \cup {id}, ref |-> id, cleanup |-> TRUE]

\* startRecording up to its await of getUserMedia: the session is created.
\* At most limit sessions are created.
StartClickWithin(limit) ==
    /\ pc = "idle" /\ ~isRecording
    /\ Cardinality(DOMAIN sessions) < limit
    /\ \E rnd \in 0 .. (limit - 1) :
        /\ SessionId(serverNow, rnd) \notin DOMAIN sessions \cup DOMAIN events
        /\ LET r == apiSessionsPOST(Db, JStr(<<"a">>), serverNow, rnd) IN
           /\ Served("POST /api/sessions", r)
           /\ IF r.status = 200
              THEN /\ startSessionId' = SessionId(serverNow, rnd)
                   /\ pc' = "acquiring"
              ELSE UNCHANGED <<startSessionId, pc>>
    /\ UNCHANGED hookVars
    /\ UNCHANGED <<serverNow, isRecording, currentSessionId, handlerSessionId,
                   clientEvents, faceDetectionStats, objectDetectionStats,
                   clientNow, videoReadyState, faceTimer, objectTimer,
                   faceInflight, objectInflight, objectModel, obsVars>>

StartClick == StartClickWithin(MaxSessions)

\* The stats of the run before are kept.
KeptFaceStats(now) == faceDetectionStats

\* The stats a monitoring run starts from.
InitialFaceStats(now) ==
    [currentFaces |-> 0, isLookingAway |-> FALSE, confidence |-> 0,
     lastFaceTime |-> now, lookAwayStartTime |-> Null]

\* getUserMedia resolves: the rest of startRecording, the render and the
\* effects of the two hooks, which start the intervals.
GetUserMediaResolves ==
    /\ pc = "acquiring"
    /\ pc' = "recording"
    /\ isRecording' = TRUE
    /\ currentSessionId' = startSessionId
    /\ handlerSessionId' = Memoized(handlerSessionId, startSessionId)
    /\ faceDetectionStats' = InitialFaceStats(clientNow)
    /\ objectDetectionStats' =
           [currentObjects |-> <<>>, suspiciousCount |-> 0,
            lastDetectionTime |-> clientNow]
    /\ faceIntervals' = useEffectInterval(faceIntervals, TRUE)
    /\ objectIntervals' =
           useEffectInterval(objectIntervals, objectModel = "loaded")
    /\ faceTimer' = clientNow + FaceInterval
    /\ objectTimer' = IF objectModel = "loaded" THEN clientNow + ObjectInterval
                      ELSE Null
    /\ lastFaceSeenAt' = clientNow
    /\ awayRun' = 0
    /\ awayRunFocus' = 0
    /\ runStartedAt' = clientNow
    /\ episodeStartedAt' = Null
    /\ lastFocusLossAt' = Null
    /\ UNCHANGED <<serverVars, startSessionId, clientEvents, clientNow,
                   videoReadyState, faceInflight, objectInflight, objectModel,
                   tickCount, lastTick, lastObjectTick, failedTicks, reqVars>>

\* getUserMedia rejects: the catch of startRecording.
GetUserMediaRejects ==
    /\ pc = "acquiring"
    /\ pc' = "idle"
    /\ UNCHANGED hookVars
    /\ UNCHANGED <<serverVars, startSessionId, isRecording, currentSessionId,
                   handlerSessionId, clientEvents, faceDetectionStats,
                   objectDetectionStats, clientNow, videoReadyState, faceTimer,
                   objectTimer, faceInflight, objectInflight, objectModel,
                   obsVars>>

\* The video element has frames of the stream.
VideoLoads ==
    /\ pc = "recording" /\ videoReadyState = 0
    /\ videoReadyState' = 4
    /\ UNCHANGED hookVars
    /\ UNCHANGED <<serverVars, pc, startSessionId, isRecording,
                   currentSessionId, handlerSessionId, clientEvents,
                   faceDetectionStats, objectDetectionStats, clientNow,
                   faceTimer, objectTimer, faceInflight, objectInflight,
                   objectModel, obsVars>>

\* loadModel of useObjectDetection succeeds: isModelLoaded changes, the
\* effect runs again.
ObjectModelLoads ==
    /\ objectModel = "loading"
    /\ objectModel' = "loaded"
    /\ objectIntervals' = useEffectInterval(objectIntervals, isRecording)
    /\ objectTimer' = IF isRecording THEN clientNow + ObjectInterval ELSE Null
    /\ UNCHANGED <<serverVars, pc, startSessionId, isRecording,
                   currentSessionId, handlerSessionId, clientEvents,
                   faceDetectionStats, objectDetectionStats, clientNow,
                   videoReadyState, faceTimer, faceInflight, objectInflight,
                   faceIntervals, obsVars>>

\* loadModel fails: isModelLoaded is set, modelRef.current stays null.
ObjectModelFails ==
    /\ objectModel = "loading"
    /\ objectModel' = "failed"
    /\ objectIntervals' = useEffectInterval(objectIntervals, FALSE)
    /\ UNCHANGED <<serverVars, pc, startSessionId, isRecording,
                   currentSessionId, handlerSessionId, clientEvents,
                   faceDetectionStats, objectDetectionStats, clientNow,
                   videoReadyState, faceTimer, objectTimer, faceInflight,
                   objectInflight, faceIntervals, obsVars>>

Due(timer) == timer # Null /\ timer <= clientNow

ClockAdvance ==
    /\ clientNow < InitialClock + MaxClientTicks * FaceInterval
    /\ ~Due(faceTimer) /\ ~Due(objectTimer)
    /\ clientNow' = clientNow + FaceInterval
    /\ UNCHANGED hookVars
    /\ UNCHANGED <<serverVars, pc, startSessionId, isRecording,
                   currentSessionId, handlerSessionId, clientEvents,
                   faceDetectionStats, objectDetectionStats, videoReadyState,
                   faceTimer, objectTimer, faceInflight, objectInflight,
                   objectModel, obsVars>>

\* The face interval fires: detectFaces up to its await.
FaceTimerFire ==
    /\ Due(faceTimer)
    /\ faceInflight < MaxInflight
    /\ faceTimer' = faceTimer + FaceInterval
    /\ faceInflight' = IF videoReadyState = 4 THEN faceInflight + 1
                       ELSE faceInflight
    /\ UNCHANGED hookVars
    /\ UNCHANGED <<serverVars, pc, startSessionId, isRecording,
                   currentSessionId, handlerSessionId, clientEvents,
                   faceDetectionStats, objectDetectionStats, clientNow,
                   videoReadyState, objectTimer, objectInflight, objectModel,
                   obsVars>>

\* The detector answers: the rest of detectFaces calls onFaceDetection.
FaceDetectResolves(result) ==
    /\ faceInflight > 0
    /\ faceInflight' = faceInflight - 1
    /\ FaceCallback(result, clientNow)
    /\ UNCHANGED <<hookVars, failedTicks>>
    /\ UNCHANGED <<pc, startSessionId, isRecording, currentSessionId,
                   handlerSessionId, clientNow, videoReadyState, faceTimer,
                   objectTimer, objectInflight, objectModel>>

\* The FaceDetector API throws: the inner catch of detectFaces falls back to
\* simpleFaceDetection and the rest of detectFaces calls onFaceDetection
\* with its result.
FaceDetectRejects(result) ==
    /\ faceInflight > 0
    /\ faceInflight' = faceInflight - 1
    /\ FaceCallback(result, clientNow)
    /\ failedTicks' = failedTicks + 1
    /\ UNCHANGED <<pc, startSessionId, isRecording, currentSessionId,
                   handlerSessionId, clientNow, videoReadyState, faceTimer,
                   objectTimer, objectInflight, objectModel, hookVars>>

\* detectFaces throws after its await, its fallback included: the outer
\* catch logs the error.
FaceDetectFails ==
    /\ faceInflight > 0
    /\ faceInflight' = faceInflight - 1
    /\ failedTicks' = failedTicks + 1
    /\ UNCHANGED hookVars
    /\ UNCHANGED <<serverVars, pc, startSessionId, isRecording,
                   currentSessionId, handlerSessionId, clientEvents,
                   faceDetectionStats, objectDetectionStats, clientNow,
                   videoReadyState, faceTimer, objectTimer, objectInflight,
                   objectModel, seenVars>>

\* The object interval fires: detectObjects up to its await.
ObjectTimerFire ==
    /\ Due(objectTimer)
    /\ objectInflight < MaxInflight
    /\ objectTimer' = objectTimer + ObjectInterval
    /\ objectInflight' = IF videoReadyState = 4 THEN objectInflight + 1
                         ELSE objectInflight
    /\ UNCHANGED hookVars
    /\ UNCHANGED <<serverVars, pc, startSessionId, isRecording,
                   currentSessionId, handlerSessionId, clientEvents,
                   faceDetectionStats, objectDetectionStats, clientNow,
                   videoReadyState, faceTimer, faceInflight, objectModel,
                   obsVars>>

\* The model answers: the rest of detectObjects calls onObjectDetection.
ObjectDetectResolves(predictions) ==
    /\ objectInflight > 0
    /\ objectInflight' = objectInflight - 1
    /\ ObjectCallback(predictions, clientNow)
    /\ UNCHANGED <<hookVars, failedTicks>>
    /\ UNCHANGED <<pc, startSessionId, isRecording, currentSessionId,
                   handlerSessionId, clientNow, videoReadyState, faceTimer,
                   objectTimer, faceInflight, objectModel>>

\* model.detect throws: the catch of detectObjects logs the error.
ObjectDetectFails ==
    /\ objectInflight > 0
    /\ objectInflight' = objectInflight - 1
    /\ failedTicks' = failedTicks + 1
    /\ UNCHANGED hookVars
    /\ UNCHANGED <<serverVars, pc, startSessionId, isRecording,
                   currentSessionId, handlerSessionId, clientEvents,
                   faceDetectionStats, objectDetectionStats, clientNow,
                   videoReadyState, faceTimer, objectTimer, faceInflight,
                   objectModel, seenVars>>

\* stopRecording up to its await of endSession: the tracks are stopped, the
\* PATCH request is sent and answered.
StopClick ==
    /\ pc = "recording" /\ isRecording
    /\ pc' = "stopping"
    /\ videoReadyState' = 0
    /\ IF currentSessionId # <<>>
       THEN Served("PATCH /api/sessions/[sessionId]",
                   apiSessionPATCH(Db, currentSessionId,
                       [endTime |-> clientNow, status |-> "completed"]))
       ELSE UNCHANGED <<sessions, events, response, appendLog>>
    /\ UNCHANGED hookVars
    /\ UNCHANGED <<serverNow, startSessionId, isRecording, currentSessionId,
                   handlerSessionId, clientEvents, faceDetectionStats,
                   objectDetectionStats, clientNow, faceTimer, objectTimer,
                   faceInflight, objectInflight, objectModel, obsVars>>

\* The rest of stopRecording, the render and the effects of the two hooks,
\* which clear the intervals.
StopRecordingResumes ==
    /\ pc = "stopping"
    /\ pc' = "idle"
    /\ isRecording' = FALSE
    /\ currentSessionId' = <<>>
    /\ handlerSessionId' = Memoized(handlerSessionId, <<>>)
    /\ faceIntervals' = useEffectInterval(faceIntervals, FALSE)
    /\ objectIntervals' = useEffectInterval(objectIntervals, FALSE)
    /\ faceTimer' = Null
    /\ objectTimer' = Null
    /\ UNCHANGED <<serverVars, startSessionId, clientEvents,
                   faceDetectionStats, objectDetectionStats, clientNow,
                   videoReadyState, faceInflight, objectInflight, objectModel,
                   obsVars>>

InitClient ==
    /\ pc = "idle"
    /\ startSessionId = <<>>
    /\ isRecording = FALSE
    /\ currentSessionId = <<>>
    /\ handlerSessionId = <<>>
    /\ clientEvents = <<>>
    /\ clientNow = InitialClock
    /\ faceDetectionStats =
           [currentFaces |-> 0, isLookingAway |-> FALSE, confidence |-> 0,
            lastFaceTime |-> InitialClock, lookAwayStartTime |-> Null]
    /\ objectDetectionStats =
           [currentObjects |-> <<>>, suspiciousCount |-> 0,
            lastDetectionTime |-> InitialClock]
    /\ videoReadyState = 0
    /\ faceTimer = Null
    /\ objectTimer = Null
    /\ faceInflight = 0
    /\ objectInflight = 0
    /\ objectModel = "loading"
    /\ faceIntervals = NoIntervals
    /\ objectIntervals = NoIntervals
    /\ tickCount = 0
    /\ lastTick = <<>>
    /\ awayRun = 0
    /\ awayRunFocus = 0
    /\ lastFaceSeenAt = InitialClock
    /\ lastObjectTick = <<>>
    /\ runStartedAt = Null
    /\ episodeStartedAt = Null
    /\ lastFocusLossAt = Null
    /\ failedTicks = 0

-----------------------------------------------------------------------------
\* The state after the server has started and the component has mounted.

EmptyMap == [x \in {} |-> <<>>]

\* The two pollers of a monitoring run: presence/gaze and objects.
Pollers == {"face", "object"}

InitStore ==
    /\ sessions = EmptyMap
    /\ events = EmptyMap
    /\ serverNow = 0
    /\ response = [route |-> "", status |-> 0]
    /\ appendLog = <<>>
    /\ pending = [p \in Pollers |-> 0]
    /\ answered = [p \in Pollers |-> 0]
    /\ lastRead = <<>>

Init == InitStore /\ InitClient

-----------------------------------------------------------------------------
\* The store under the requests of any client.

\* The suffixes Math.random() may draw within one millisecond.
RandSuffix == 0 .. (MaxSessions - 1)

\* A session key no session was created under (a client may send any id).
GhostSessionId == <<"session", 0, 7>>

RECURSIVE StringsUpTo(_)
StringsUpTo(n) ==
    IF n = 0 THEN {<<>>}
    ELSE LET shorter == StringsUpTo(n - 1) IN
         shorter \cup {Append(s, c) : s \in shorter, c \in {" ", "a"}}

CandidateNameInputs ==
    {JUndefined, JNumber} \cup {JStr(s) : s \in StringsUpTo(MaxNameLen)}

EventBodies ==
    [sessionId : DOMAIN sessions \cup {GhostSessionId, <<>>},
     type : {"no_face", "focus_loss", "", "bogus"},
     description : {<<>>, <<"d">>},
     severity : {"high", "", "critical"}]
    \cup
    [sessionId : DOMAIN sessions \cup {GhostSessionId, <<>>},
     type : {"no_face", "focus_loss", "", "bogus"},
     description : {<<>>, <<"d">>}]

\* Bodies of PATCH requests: any JSON object is accepted.
PatchBodies ==
    {[status |-> "completed", endTime |-> 1],
     [status |-> "terminated"],
     [status |-> "active"],
     [integrityScore |-> 100, totalEvents |-> 0]}

RECURSIVE SumLen(_, _)
SumLen(m, keys) ==
    IF keys = {} THEN 0
    ELSE LET k == CHOOSE x \in keys : TRUE IN Len(m[k]) + SumLen(m, keys \ {k})

StoredEvents == SumLen(events, DOMAIN events)

\* Math.random() does not repeat a suffix within one millisecond.
FreshSessionRnd(rnd) ==
    SessionId(serverNow, rnd) \notin DOMAIN sessions \cup DOMAIN events

DoPostSessions ==
    \E candidateName \in {JStr(<<"a">>), JUndefined}, rnd \in RandSuffix :
        /\ Cardinality(DOMAIN sessions) < MaxSessions
        /\ FreshSessionRnd(rnd)
        /\ PostSessions(candidateName, rnd)

DoPostEvents ==
    \E body \in EventBodies :
        /\ StoredEvents < MaxStoreEvents
        /\ PostEvents(body, 0)

DoPatchSession ==
    \E sessionId \in DOMAIN sessions \cup {GhostSessionId},
       updates \in PatchBodies :
        PatchSession(sessionId, updates)

NextStore ==
    \/ DoPostSessions
    \/ DoPostEvents
    \/ DoPatchSession

SpecStore == Init /\ [][NextStore]_vars

-----------------------------------------------------------------------------
\* The store under the writes and the reads of any client.

DoPostEventsTo ==
    \E sessionId \in DOMAIN sessions \cup {GhostSessionId},
       type \in {"no_face", "focus_loss"} :
        /\ StoredEvents < MaxStoreEvents
        /\ PostEvents([sessionId |-> sessionId, type |-> type,
                       description |-> <<"d">>], 0)

DoGetSession ==
    \E sessionId \in DOMAIN sessions \cup {GhostSessionId} :
        GetSession(sessionId)

DoGetReport ==
    \E sessionId \in DOMAIN sessions \cup {GhostSessionId} :
        GetReport(sessionId)

DoGetEvents ==
    \E sessionId \in DOMAIN sessions \cup {GhostSessionId, <<>>},
       type \in {"", "no_face"} :
        GetEvents(sessionId, type)

NextLedger ==
    \/ DoPostSessions
    \/ DoPostEventsTo
    \/ DoPatchSession
    \/ DoGetEvents
    \/ DoGetSession
    \/ DoGetReport

SpecLedger == Init /\ [][NextLedger]_vars

-----------------------------------------------------------------------------
\* Session creation with candidate names of every shape.

DoPostSessionsNamed ==
    \E candidateName \in CandidateNameInputs, rnd \in RandSuffix :
        /\ Cardinality(DOMAIN sessions) < MaxSessions
        /\ FreshSessionRnd(rnd)
        /\ PostSessions(candidateName, rnd)

NextNames ==
    \/ DoPostSessionsNamed
    \/ DoPatchSession
    \/ ServerClockTick

SpecNames == Init /\ [][NextNames]_vars

-----------------------------------------------------------------------------
\* The store under PATCH requests that carry any field of a session.

FieldBodies ==
    {[status |-> "paused"],
     [status |-> "completed", endTime |-> 1],
     [id |-> GhostSessionId],
     [candidateName |-> <<"b">>],
     [startTime |-> 5]}

DoPatchFields ==
    \E sessionId \in DOMAIN sessions \cup {GhostSessionId},
       updates \in FieldBodies :
        PatchSession(sessionId, updates)

NextFields ==
    \/ DoPostSessions
    \/ DoPostEventsTo
    \/ DoPatchFields

SpecFields == Init /\ [][NextFields]_vars

-----------------------------------------------------------------------------
\* One session and the severities appended to it.

DoPostSessionsOnce ==
    /\ sessions = EmptyMap
    /\ PostSessions(JStr(<<"a">>), 0)

DoPostEventsSeverity ==
    \E sessionId \in DOMAIN sessions, severity \in validSeverities :
        /\ Len(events[sessionId]) < MaxScoreLedger
        /\ PostEvents([sessionId |-> sessionId, type |-> "no_face",
                       description |-> <<"d">>, severity |-> severity], 0)

DoPatchDerived ==
    \E sessionId \in DOMAIN sessions :
        PatchSession(sessionId, [integrityScore |-> 100, totalEvents |-> 0])

NextScore ==
    \/ DoPostSessionsOnce
    \/ DoPostEventsSeverity
    \/ DoPatchDerived

SpecScore == Init /\ [][NextScore]_vars

-----------------------------------------------------------------------------
\* One session, the events of every type appended to it and its score
\* updated by PATCH requests: the states a report is generated from.

ReportEventKinds ==
    {[type |-> "focus_loss", severity |-> "medium"],
     [type |-> "suspicious_object", severity |-> "high"],
     [type |-> "multiple_faces", severity |-> "high"],
     [type |-> "no_face", severity |-> "high"]}

DoPostEventsOfKind ==
    \E sessionId \in DOMAIN sessions, kind \in ReportEventKinds :
        /\ Len(events[sessionId]) < MaxReportLedger
        /\ PostEvents([sessionId |-> sessionId, type |-> kind.type,
                       description |-> <<"d">>, severity |-> kind.severity], 0)

DoPatchScore ==
    \E sessionId \in DOMAIN sessions, integrityScore \in {0, 100} :
        PatchSession(sessionId, [integrityScore |-> integrityScore])

NextReport ==
    \/ DoPostSessionsOnce
    \/ DoPostEventsOfKind
    \/ DoPatchScore

SpecReport == Init /\ [][NextReport]_vars

-----------------------------------------------------------------------------
\* One session, a short ledger of medium and high events and a score set to
\* any percentage by PATCH requests: the scores a tier is shown for.

DoPostEventsTier ==
    \E sessionId \in DOMAIN sessions, severity \in {"medium", "high"} :
        /\ Len(events[sessionId]) < MaxTierLedger
        /\ PostEvents([sessionId |-> sessionId, type |-> "no_face",
                       description |-> <<"d">>, severity |-> severity], 0)

DoPatchAnyScore ==
    \E sessionId \in DOMAIN sessions, integrityScore \in 0 .. 100 :
        PatchSession(sessionId, [integrityScore |-> integrityScore])

NextTier ==
    \/ DoPostSessionsOnce
    \/ DoPostEventsTier
    \/ DoPatchAnyScore

SpecTier == Init /\ [][NextTier]_vars

-----------------------------------------------------------------------------
\* One session, the append requests of the two pollers of a client and the
\* reads of the session and of its report.  A POST handler awaits
\* request.json() and then runs to its response without another await; the
\* GET handlers have no await.

\* What logEventToBackend sends for an event of each poller.
PollerBody(p, sessionId) ==
    IF p = "face"
    THEN [sessionId |-> sessionId, type |-> "focus_loss",
          description |->
              <<"Candidate looked away from screen for more than 5 seconds">>,
          severity |-> "medium"]
    ELSE [sessionId |-> sessionId, type |-> "suspicious_object",
          description |-> <<"cell phone", " detected (", 90, "% confidence)">>,
          severity |-> "high"]

\* fetch("/api/events", ...): the request reaches its handler.
PollerSends(p) ==
    /\ sessions # EmptyMap
    /\ pending[p] + answered[p] < MaxPolls
    /\ pending' = [pending EXCEPT ![p] = @ + 1]
    /\ UNCHANGED <<serverVars, clientVars, tickVars, answered, lastRead>>

\* request.json() resolves: the rest of the POST handler.
HandlePollerPost(p) ==
    /\ pending[p] > 0
    /\ \E sessionId \in DOMAIN sessions :
           LET r == apiEventsPOST(Db, PollerBody(p, sessionId), serverNow, 0)
           IN /\ Served("POST /api/events", r)
              /\ answered' = [answered EXCEPT
                                 ![p] = IF r.status = 200 THEN @ + 1 ELSE @]
    /\ pending' = [pending EXCEPT ![p] = @ - 1]
    /\ UNCHANGED <<serverNow, clientVars, tickVars, lastRead>>

NextConcurrent ==
    \/ DoPostSessionsOnce
    \/ \E p \in Pollers : PollerSends(p)
    \/ \E p \in Pollers : HandlePollerPost(p)
    \/ DoGetSession
    \/ DoGetReport

SpecConcurrent == Init /\ [][NextConcurrent]_vars

-----------------------------------------------------------------------------
\* The identifiers of sessions and events: Date.now() and a suffix drawn by
\* Math.random(), which does not repeat a suffix within one millisecond; a
\* PATCH request may carry any field of a session.

RandDraws == 0 .. MaxRandDraw

\* The ids of the events in the store.
StoredEventIds ==
    UNION {{events[k][i].id : i \in 1 .. Len(events[k])} : k \in DOMAIN events}

DoPostSessionsDrawn ==
    \E rnd \in RandDraws :
        /\ Cardinality(DOMAIN sessions) < MaxIdSessions
        /\ FreshSessionRnd(rnd)
        /\ PostSessions(JStr(<<"a">>), rnd)

DoPostEventsDrawn ==
    \E sessionId \in DOMAIN sessions, rnd \in RandDraws :
        /\ StoredEvents < MaxStoreEvents
        /\ EventId(serverNow, rnd) \notin StoredEventIds
        /\ PostEvents([sessionId |-> sessionId, type |-> "no_face",
                       description |-> <<"d">>, severity |-> "high"], rnd)

DoPatchId ==
    \E sessionId \in DOMAIN sessions, id \in DOMAIN sessions :
        PatchSession(sessionId, [id |-> id])

NextIds ==
    \/ DoPostSessionsDrawn
    \/ DoPostEventsDrawn
    \/ DoPatchId
    \/ ServerClockTick

SpecIds == Init /\ [][NextIds]_vars

-----------------------------------------------------------------------------
\* The presence/gaze poller of one monitoring run, its detector answering
\* within the millisecond of each tick.

\* Results of the detector: the native FaceDetector reports any count and an
\* away gaze only of a single face; the fallback reports at most one face and
\* an away gaze only without a face.
FaceSamples ==
    {[faceCount |-> 0, isLookingAway |-> FALSE, confidence |-> 0],
     [faceCount |-> 0, isLookingAway |-> TRUE, confidence |-> 120],
     [faceCount |-> 1, isLookingAway |-> FALSE, confidence |-> 800],
     [faceCount |-> 1, isLookingAway |-> TRUE, confidence |-> 800],
     [faceCount |-> 2, isLookingAway |-> FALSE, confidence |-> 800],
     [faceCount |-> 3, isLookingAway |-> FALSE, confidence |-> 800]}

TickDue ==
    /\ pc = "recording"
    /\ faceTimer # Null
    /\ faceTimer <= InitialClock + MaxFaceTicks * FaceInterval
    /\ Len(clientEvents) < MaxDisplayed

\* The interval fires at its due time and detectFaces runs to its end.
FaceTick(result) ==
    /\ TickDue
    /\ videoReadyState = 4
    /\ clientNow' = faceTimer
    /\ faceTimer' = faceTimer + FaceInterval
    /\ FaceCallback(result, faceTimer)
    /\ UNCHANGED <<hookVars, failedTicks>>
    /\ UNCHANGED <<pc, startSessionId, isRecording, currentSessionId,
                   handlerSessionId, videoReadyState, objectTimer,
                   faceInflight, objectInflight, objectModel>>

\* The interval fires before the video has a frame: detectFaces returns.
FaceTickNotReady ==
    /\ TickDue
    /\ videoReadyState # 4
    /\ clientNow' = faceTimer
    /\ faceTimer' = faceTimer + FaceInterval
    /\ UNCHANGED hookVars
    /\ UNCHANGED <<serverVars, pc, startSessionId, isRecording,
                   currentSessionId, handlerSessionId, clientEvents,
                   faceDetectionStats, objectDetectionStats, videoReadyState,
                   objectTimer, faceInflight, objectInflight, objectModel,
                   obsVars>>

NextDebounce ==
    \/ StartClick
    \/ GetUserMediaResolves
    \/ VideoLoads
    \/ \E result \in FaceSamples : FaceTick(result)
    \/ FaceTickNotReady

SpecDebounce == Init /\ [][NextDebounce]_vars

-----------------------------------------------------------------------------
\* Monitoring runs one after the other, each with its own session: the
\* presence/gaze poller of each run, its detector answering within the
\* millisecond of each tick.

RunSamples ==
    {[faceCount |-> 0, isLookingAway |-> FALSE, confidence |-> 0],
     [faceCount |-> 0, isLookingAway |-> TRUE, confidence |-> 120],
     [faceCount |-> 1, isLookingAway |-> FALSE, confidence |-> 800]}

NextRuns ==
    \/ StartClickWithin(MaxRuns)
    \/ GetUserMediaResolves
    \/ VideoLoads
    \/ \E result \in RunSamples : FaceTick(result)
    \/ FaceTickNotReady
    \/ StopClick
    \/ StopRecordingResumes

SpecRuns == Init /\ [][NextRuns]_vars

-----------------------------------------------------------------------------
\* The object poller of one monitoring run, its model answering within the
\* millisecond of each tick.

\* Objects the model may report: labels of COCO-SSD with scores in
\* thousandths.
ObjectPredictions ==
    {[class |-> "cell phone", confidence |-> 904],
     [class |-> "cell phone", confidence |-> 500],
     [class |-> "book", confidence |-> 300],
     [class |-> "laptop", confidence |-> 501],
     [class |-> "person", confidence |-> 990]}

RECURSIVE SeqsUpTo(_, _)
SeqsUpTo(S, n) ==
    IF n = 0 THEN {<<>>}
    ELSE LET shorter == SeqsUpTo(S, n - 1) IN
         shorter \cup {Append(q, x) : q \in shorter, x \in S}

ObjectSamples == SeqsUpTo(ObjectPredictions, MaxObjectsPerFrame)

ObjectTickDue ==
    /\ pc = "recording"
    /\ objectTimer # Null
    /\ objectTimer <= InitialClock + MaxObjectTicks * ObjectInterval

\* The interval fires at its due time and detectObjects runs to its end.
ObjectTick(predictions) ==
    /\ ObjectTickDue
    /\ videoReadyState = 4
    /\ clientNow' = objectTimer
    /\ objectTimer' = objectTimer + ObjectInterval
    /\ ObjectCallback(predictions, objectTimer)
    /\ UNCHANGED <<hookVars, failedTicks>>
    /\ UNCHANGED <<pc, startSessionId, isRecording, currentSessionId,
                   handlerSessionId, videoReadyState, faceTimer,
                   faceInflight, objectInflight, objectModel>>

\* The interval fires before the video has a frame: detectObjects returns.
ObjectTickNotReady ==
    /\ ObjectTickDue
    /\ videoReadyState # 4
    /\ clientNow' = objectTimer
    /\ objectTimer' = objectTimer + ObjectInterval
    /\ UNCHANGED hookVars
    /\ UNCHANGED <<serverVars, pc, startSessionId, isRecording,
                   currentSessionId, handlerSessionId, clientEvents,
                   faceDetectionStats, objectDetectionStats, videoReadyState,
                   faceTimer, faceInflight, objectInflight, objectModel,
                   obsVars>>

NextObjects ==
    \/ StartClick
    \/ ObjectModelLoads
    \/ GetUserMediaResolves
    \/ VideoLoads
    \/ \E predictions \in ObjectSamples : ObjectTick(predictions)
    \/ ObjectTickNotReady

SpecObjects == Init /\ [][NextObjects]_vars

-----------------------------------------------------------------------------
\* The component with its two pollers, starting and stopping.

ClientFaceSamples ==
    {[faceCount |-> 1, isLookingAway |-> FALSE, confidence |-> 800],
     [faceCount |-> 2, isLookingAway |-> FALSE, confidence |-> 800]}

\* Results of simpleFaceDetection: one face when more than 2% of the pixels
\* have a skin tone, an away gaze when between 1% and 1.5% have.
FallbackSamples ==
    {[faceCount |-> 1, isLookingAway |-> FALSE, confidence |-> 800],
     [faceCount |-> 0, isLookingAway |-> TRUE, confidence |-> 120]}

ClientObjectSamples ==
    {<<>>,
     <<[class |-> "cell phone", confidence |-> 904],
       [class |-> "person", confidence |-> 990]>>}

NextClient ==
    \/ StartClick
    \/ GetUserMediaResolves
    \/ GetUserMediaRejects
    \/ VideoLoads
    \/ ObjectModelLoads
    \/ ObjectModelFails
    \/ ClockAdvance
    \/ FaceTimerFire
    \/ \E result \in ClientFaceSamples : FaceDetectResolves(result)
    \/ \E result \in FallbackSamples : FaceDetectRejects(result)
    \/ FaceDetectFails
    \/ ObjectTimerFire
    \/ \E predictions \in ClientObjectSamples : ObjectDetectResolves(predictions)
    \/ ObjectDetectFails
    \/ StopClick
    \/ StopRecordingResumes

SpecClient == Init /\ [][NextClient]_vars

-----------------------------------------------------------------------------
\* Properties of the store.

CountSeverity(ledger, severity) ==
    Cardinality({i \in 1 .. Len(ledger) : ledger[i].severity = severity})

\* max(0, 100 - (2 * low + 5 * medium + 10 * high))
ExpectedScore(ledger) ==
    LET d == 2 * CountSeverity(ledger, "low")
             + 5 * CountSeverity(ledger, "medium")
             + 10 * CountSeverity(ledger, "high")
    IN IF d >= 100 THEN 0 ELSE 100 - d

\* C2: in every reachable state each session's integrityScore is
\* max(0, 100 - sum of the severity weights of its ledger) and its
\* totalEvents is the length of its ledger (direct updates of the two fields
\* being rejected or ignored).
C2_DerivedFieldsFollowLedger ==
    \A s \in DOMAIN sessions :
        /\ sessions[s].integrityScore = ExpectedScore(events[s])
        /\ sessions[s].totalEvents = Len(events[s])

\* C3: immediately after every successful addEvent on an existing session,
\* the session's integrityScore is
\* max(0, 100 - (2 * low + 5 * medium + 10 * high)) over its ledger.
C3_ScoreAfterAppend ==
    [][\A s \in DOMAIN sessions :
          events'[s] # events[s] =>
              sessions'[s].integrityScore = ExpectedScore(events'[s])]_vars

\* C3 witness: an append that takes the deductions past 100, after a direct
\* update of the score: the score is floored at 0.
C3_Witness ==
    \E s \in DOMAIN sessions :
        /\ Len(events[s]) = 11
        /\ totalDeductions(events[s]) > 100
        /\ CountSeverity(events[s], "low") > 0
        /\ sessions[s].integrityScore = 0
        /\ sessions[s].totalEvents = 11

TerminalStatuses == {"completed", "terminated"}

\* C4: once a session's status is completed or terminated, no operation
\* changes its status again.
C4_TerminalStatusIsFinal ==
    [][\A s \in DOMAIN sessions :
          sessions[s].status \in TerminalStatuses =>
              sessions'[s].status = sessions[s].status]_vars

\* C5: an append whose sessionId names no session fails with NotFound and
\* creates or extends no event list for that id.
C5_AppendToMissingSessionFails ==
    \A sessionId \in DOMAIN events : sessionId \in DOMAIN sessions

\* C6: every stored session has a candidate name that is non-empty (a name
\* that is empty after trimming is refused and creates no session).
C6_StoredNamesNonEmpty ==
    \A s \in DOMAIN sessions : sessions[s].candidateName # <<>>

-----------------------------------------------------------------------------
\* Properties of the component.

\* C1: every event emitted while a session is being monitored is appended
\* to the ledger of that session: a step of a monitoring run that adds n
\* events to the displayed list adds n events to the ledger of the session
\* created by startRecording.
C1_EmittedEventsReachLedger ==
    [][(isRecording /\ currentSessionId \in DOMAIN events) =>
          Len(events'[currentSessionId]) - Len(events[currentSessionId])
              = Len(clientEvents') - Len(clientEvents)]_vars

\* C7: after monitoring is stopped no further event is emitted, also when a
\* detector call that was in flight returns later.
C7_NoEventAfterStop ==
    [][(pc = "idle" /\ ~isRecording) => clientEvents' = clientEvents]_vars

\* C8 as stated: a continuous away signal sampled every 1000 ms has produced
\* exactly one focus_loss event when it has lasted 5001 ms (six samples) and
\* exactly two when it has lasted 10001 ms (eleven samples).
C8_OneAtFiveSecondsTwoAtTen ==
    /\ awayRun = 6 => awayRunFocus = 1
    /\ awayRun = 11 => awayRunFocus = 2

\* C8 as amended: a continuous away signal sampled every 1000 ms has
\* produced no focus_loss event when it has lasted 5001 ms and exactly one
\* when it has lasted 10001 ms; the first is emitted at the sample 6000 ms
\* after the first away sample, the second at the sample 12000 ms after it:
\* after the k-th sample of the run there are (k - 1) \div 6 of them.
C8_FocusLossEverySixthSample ==
    /\ awayRun = 6 => awayRunFocus = 0
    /\ awayRun = 11 => awayRunFocus = 1
    /\ awayRun >= 1 => awayRunFocus = (awayRun - 1) \div 6

\* C8 witness: the thirteenth sample of an away run, with its second event.
C8_Witness ==
    /\ awayRun = 13
    /\ awayRunFocus = 2
    /\ CountType(lastTick[1].emitted, "focus_loss") = 1

\* The step is a call of handleFaceDetection.
FaceTicked == tickCount' # tickCount

NoFaceEmitted(tick) == CountType(tick.emitted, "no_face")

\* C9: a tick with faceCount = 0 emits one no_face event of severity high
\* exactly when more than 10,000 ms have elapsed since the latest tick with a
\* face (or since monitoring started); it leaves the last-seen-face timestamp
\* as it was, so the tick with faceCount = 0 that follows an emission emits
\* again.
C9_NoFaceAfterTenSeconds ==
    [][(FaceTicked /\ lastTick'[1].result.faceCount = 0) =>
          /\ NoFaceEmitted(lastTick'[1]) =
                 IF lastTick'[1].at - lastFaceSeenAt > 10000 THEN 1 ELSE 0
          /\ \A i \in 1 .. Len(lastTick'[1].emitted) :
                 lastTick'[1].emitted[i].type = "no_face" =>
                     lastTick'[1].emitted[i].severity = "high"
          /\ faceDetectionStats'.lastFaceTime = faceDetectionStats.lastFaceTime
          /\ (lastTick # <<>> /\ NoFaceEmitted(lastTick[1]) = 1) =>
                 NoFaceEmitted(lastTick'[1]) = 1]_vars

\* C9 witness: no_face emitted by two ticks in a row.
C9_Witness ==
    /\ lastTick # <<>>
    /\ lastTick[1].result.faceCount = 0
    /\ NoFaceEmitted(lastTick[1]) = 1
    /\ CountType(clientEvents, "no_face") >= 2

MultipleFacesEvents(tick) ==
    SelectSeq(tick.emitted, LAMBDA e : e.type = "multiple_faces")

\* C10: every tick with faceCount = n > 1 emits exactly one multiple_faces
\* event, of severity high and described as "n faces detected in frame",
\* whatever the state before the tick.
C10_MultipleFacesEveryTick ==
    [][(FaceTicked /\ lastTick'[1].result.faceCount > 1) =>
          /\ Len(MultipleFacesEvents(lastTick'[1])) = 1
          /\ MultipleFacesEvents(lastTick'[1])[1].severity = "high"
          /\ MultipleFacesEvents(lastTick'[1])[1].description =
                 <<lastTick'[1].result.faceCount, " faces detected in frame">>
          /\ clientEvents' = clientEvents \o lastTick'[1].emitted]_vars

\* C10 witness: a tick with three faces after a tick with two.
C10_Witness ==
    /\ lastTick # <<>>
    /\ lastTick[1].result.faceCount = 3
    /\ Len(clientEvents) >= 2
    /\ clientEvents[Len(clientEvents)].description =
           <<3, " faces detected in frame">>
    /\ clientEvents[Len(clientEvents) - 1].description =
           <<2, " faces detected in frame">>

\* The step is a call of handleObjectDetection.
ObjectTicked == lastObjectTick' # lastObjectTick

\* The objects of a sample that are on the allow-list with a confidence of
\* at least the floor of 0.5.
MeetsFloor(predictions) ==
    {i \in 1 .. Len(predictions) :
        /\ toLowerCase(predictions[i].class) \in
               {"cell phone", "book", "laptop", "keyboard", "mouse", "remote",
                "scissors", "teddy bear", "bottle", "cup"}
        /\ predictions[i].confidence >= 500}

\* C11: every object tick emits as many suspicious_object events, each of
\* severity high, as the sample has objects whose label is on the allow-list
\* and whose confidence meets the floor of 0.5, and nothing else, whatever
\* the ticks before it emitted.
C11_OneEventPerQualifyingObject ==
    [][ObjectTicked =>
          /\ clientEvents' = clientEvents \o lastObjectTick'[1].emitted
          /\ Len(lastObjectTick'[1].emitted) =
                 Cardinality(MeetsFloor(lastObjectTick'[1].predictions))
          /\ \A i \in 1 .. Len(lastObjectTick'[1].emitted) :
                 /\ lastObjectTick'[1].emitted[i].type = "suspicious_object"
                 /\ lastObjectTick'[1].emitted[i].severity = "high"]_vars

-----------------------------------------------------------------------------
\* Properties of the reads of the store.

\* The events addEvent has returned for one session, in call order.
AppendedTo(sessionId) ==
    SelectSeq(appendLog, LAMBDA e : e.sessionId = sessionId)

\* C12: after any sequence of appends, getEvents(sessionId) is the sequence
\* of the events appended for that session, in the order of the appends (the
\* empty sequence when there were none), and getEventsByType(sessionId, type)
\* is the subsequence of the events of that type.
C12_ReadsInAppendOrder ==
    \A sessionId \in DOMAIN sessions \cup DOMAIN events \cup {GhostSessionId} :
        /\ getEvents(Db, sessionId) = AppendedTo(sessionId)
        /\ \A type \in validTypes :
               getEventsByType(Db, sessionId, type) =
                   SelectSeq(AppendedTo(sessionId), LAMBDA e : e.type = type)

\* C12 witness: two events of different types appended to one session, and
\* a key with no event.
C12_Witness ==
    \E sessionId \in DOMAIN sessions :
        /\ Len(getEvents(Db, sessionId)) = 2
        /\ getEvents(Db, sessionId)[1].type = "focus_loss"
        /\ getEvents(Db, sessionId)[2].type = "no_face"
        /\ getEventsByType(Db, sessionId, "no_face") =
               <<getEvents(Db, sessionId)[2]>>
        /\ getEvents(Db, GhostSessionId) = <<>>

-----------------------------------------------------------------------------
\* Properties of the identifiers.

\* The places of the events in the store.
EventPlaces == {<<k, i>> : k \in DOMAIN events, i \in 1 .. MaxStoreEvents}

\* C13: no two events in the store share an id and no two sessions share an
\* id, also when they were appended or created within one millisecond.
C13_IdentifiersUnique ==
    /\ \A p, q \in EventPlaces :
           (/\ p[2] <= Len(events[p[1]])
            /\ q[2] <= Len(events[q[1]])
            /\ events[p[1]][p[2]].id = events[q[1]][q[2]].id) => p = q
    /\ \A j, k \in DOMAIN sessions :
           sessions[j].id = sessions[k].id => j = k

-----------------------------------------------------------------------------
\* Properties of the store under the requests of the two pollers.

\* The session and the ledger agree: the derived fields are those of the
\* ledger.
Consistent(session, ledger) ==
    /\ session.totalEvents = Len(ledger)
    /\ session.integrityScore = ExpectedScore(ledger)

\* What a read was answered with is consistent: a session with the ledger
\* in the store, a report in itself and with that ledger.
ReadConsistent(read, ledgers) ==
    read.status = 200 =>
        IF "report" \in DOMAIN read
        THEN /\ Consistent(read.report.session, read.report.timeline)
             /\ Consistent(read.report.summary, read.report.timeline)
             /\ Len(read.report.timeline) = Len(ledgers[read.report.session.id])
        ELSE Consistent(read.session, ledgers[read.session.id])

\* C14: under every interleaving of the append requests of the two pollers
\* for one session and of reads of the session and of its report, no append
\* is lost (after n answered appends the ledger holds n events, those of
\* each poller as many as it was answered, and totalEvents = n) and every
\* read observes totalEvents equal to the length of the ledger and
\* integrityScore equal to the score of that ledger.
C14_AppendsLinearizable ==
    [][(\A s \in DOMAIN sessions' :
           /\ Len(events'[s]) = answered'["face"] + answered'["object"]
           /\ CountType(events'[s], "focus_loss") = answered'["face"]
           /\ CountType(events'[s], "suspicious_object") = answered'["object"]
           /\ Consistent(sessions'[s], events'[s]))
       /\ (lastRead' # lastRead => ReadConsistent(lastRead'[1], events'))]_vars

\* C14 witness: a report read between two appends, with a request of the
\* other poller in flight, and the later appends applied.
C14_Witness ==
    /\ lastRead # <<>>
    /\ lastRead[1].status = 200
    /\ "report" \in DOMAIN lastRead[1]
    /\ lastRead[1].report.summary.totalEvents = 2
    /\ lastRead[1].report.summary.integrityScore = 85
    /\ answered = [face |-> 2, object |-> 1]
    /\ pending["object"] = 1
    /\ \A s \in DOMAIN sessions : sessions[s].totalEvents = 3

-----------------------------------------------------------------------------
\* Properties of the report.

\* The recommendations of the report of a session.
RecommendationsOf(sessionId) ==
    apiReportGET(Db, sessionId, serverNow).report.recommendations

\* The tier message of a score band.
TierMessage(score) ==
    CASE score >= 90 -> TierExcellent
      [] score >= 70 /\ score < 90 -> TierGood
      [] score >= 50 /\ score < 70 -> TierModerate
      [] score < 50 -> TierSignificant

\* The condition of each advisory, on the ledger of a session.
AdvisoryHolds(advice, ledger) ==
    CASE advice = AdviceFocus -> CountType(ledger, "focus_loss") > 3
      [] advice = AdviceObjects -> CountType(ledger, "suspicious_object") > 0
      [] advice = AdviceFaces -> CountType(ledger, "multiple_faces") > 0
      [] advice = AdviceHigh -> CountSeverity(ledger, "high") > 2

\* C15: for every session state the recommendation list is non-empty, its
\* first element is the tier message of the band of the session's score,
\* and the advisories that follow are, in the fixed order focus_loss count
\* > 3, suspicious_object count > 0, multiple_faces count > 0, high-severity
\* count > 2, exactly those whose condition holds.
C15_RecommendationsOrdered ==
    \A s \in DOMAIN sessions :
        /\ Len(RecommendationsOf(s)) >= 1
        /\ RecommendationsOf(s)[1] = TierMessage(sessions[s].integrityScore)
        /\ Tail(RecommendationsOf(s)) =
               SelectSeq(<<AdviceFocus, AdviceObjects, AdviceFaces, AdviceHigh>>,
                         LAMBDA advice : AdvisoryHolds(advice, events[s]))

\* C15 witness: a session at the lower edge of the Moderate band with every
\* advisory.
C15_Witness ==
    \E s \in DOMAIN sessions :
        /\ sessions[s].integrityScore = 50
        /\ Len(events[s]) = 7
        /\ RecommendationsOf(s) =
               <<TierModerate, AdviceFocus, AdviceObjects, AdviceFaces,
                 AdviceHigh>>

\* C16: a newly created session has status active, integrityScore 100,
\* totalEvents 0, an empty event list and no end time, and the
\* recommendation list of its report is the single Excellent tier message.
C16_NewSessionIsClean ==
    [][\A s \in (DOMAIN sessions') \ DOMAIN sessions :
          /\ sessions'[s].status = "active"
          /\ sessions'[s].integrityScore = 100
          /\ sessions'[s].totalEvents = 0
          /\ events'[s] = <<>>
          /\ "endTime" \notin DOMAIN sessions'[s]
          /\ apiReportGET([sessions |-> sessions', events |-> events'],
                          s, serverNow').report.recommendations =
                 <<"Excellent interview integrity maintained throughout the session.">>]_vars

\* C16 witness: a session just created in a store that already holds
\* events.
C16_Witness ==
    /\ response = [route |-> "POST /api/sessions", status |-> 200]
    /\ \E s \in DOMAIN sessions :
           /\ sessions[s].totalEvents = 0
           /\ sessions[s].status = "active"
           /\ events[s] = <<>>
    /\ GhostSessionId \in DOMAIN events

-----------------------------------------------------------------------------
\* Properties of the ingestion of events.

\* Well-formed submissions for a session: a type and a severity of the
\* taxonomy (or no severity) and a description.
ValidBodies(sessionId) ==
    [sessionId : {sessionId},
     type : {"focus_loss", "no_face", "multiple_faces", "suspicious_object"},
     description : {<<"d">>},
     severity : {"low", "medium", "high"}]
    \cup
    [sessionId : {sessionId},
     type : {"focus_loss", "no_face", "multiple_faces", "suspicious_object"},
     description : {<<"d">>}]

\* C18: the status of a session does not gate ingestion: an append to an
\* existing session succeeds, adds the event to the ledger and updates
\* totalEvents and integrityScore, whether the session is active, completed
\* or terminated.
C18_StatusDoesNotGateIngestion ==
    \A s \in DOMAIN sessions :
        \A body \in ValidBodies(s) :
            LET r == apiEventsPOST(Db, body, serverNow, 0) IN
            /\ r.status = 200
            /\ Len(r.db.events[s]) = Len(events[s]) + 1
            /\ SubSeq(r.db.events[s], 1, Len(events[s])) = events[s]
            /\ r.db.events[s][Len(events[s]) + 1].type = body.type
            /\ r.db.sessions[s].totalEvents = Len(events[s]) + 1
            /\ r.db.sessions[s].integrityScore = ExpectedScore(r.db.events[s])
            /\ r.db.sessions[s].status = sessions[s].status

\* C18 witness: the latest request appended an event to a session that had
\* been terminated (completed), and its derived fields follow.
C18_Witness ==
    /\ response = [route |-> "POST /api/events", status |-> 200]
    /\ GhostSessionId \notin DOMAIN events
    /\ \E s \in DOMAIN sessions :
           /\ sessions[s].status \in {"terminated", "completed"}
           /\ Len(events[s]) = 1
           /\ sessions[s].totalEvents = 1
           /\ sessions[s].integrityScore = 90

\* C19: the ledger is append-only: over every step of every operation
\* (createSession, addEvent, updateSession, the reads) each event sequence
\* before the step is a prefix of the sequence under the same key after it.
C19_LedgerAppendOnly ==
    [][\A k \in DOMAIN events :
          /\ k \in DOMAIN events'
          /\ Len(events'[k]) >= Len(events[k])
          /\ SubSeq(events'[k], 1, Len(events[k])) = events[k]]_vars

\* C19 witness: a session holding two events, updated and read since.
C19_Witness ==
    /\ lastRead # <<>>
    /\ lastRead[1].route = "GET /api/events"
    /\ lastRead[1].status = 200
    /\ Len(lastRead[1].events) = 1
    /\ response.route = "PATCH /api/sessions/[sessionId]"
    /\ response.status = 200
    /\ \E s \in DOMAIN sessions :
           /\ Len(events[s]) = 2
           /\ sessions[s].status = "completed"

\* Submissions for a session that carry a type or a severity outside the
\* taxonomy.
InvalidBodies(sessionId) ==
    {body \in [sessionId : {sessionId},
               type : {"no_face", "bogus"},
               description : {<<"d">>},
               severity : {"high", "critical", ""}] :
        \/ body.type \notin {"focus_loss", "no_face", "multiple_faces",
                             "suspicious_object"}
        \/ body.severity \notin {"low", "medium", "high"}}

\* C20: an event submission with a type outside {focus_loss, no_face,
\* multiple_faces, suspicious_object} or a severity outside {low, medium,
\* high} is rejected with a validation error and leaves the ledger and the
\* session unchanged; every event in any ledger has a type and a severity
\* of those sets.
C20_InvalidSubmissionRejected ==
    /\ \A s \in DOMAIN sessions :
           \A body \in InvalidBodies(s) :
               LET r == apiEventsPOST(Db, body, serverNow, 0) IN
               /\ r.status = 400
               /\ r.db = Db
    /\ \A k \in DOMAIN events :
           \A i \in 1 .. Len(events[k]) :
               /\ events[k][i].type \in {"focus_loss", "no_face",
                                         "multiple_faces", "suspicious_object"}
               /\ events[k][i].severity \in {"low", "medium", "high"}

-----------------------------------------------------------------------------
\* Properties of the tiers.

\* The label and the tier message shown for the report of a session.
ShownTier(sessionId) ==
    LET report == apiReportGET(Db, sessionId, serverNow).report IN
    <<IntegrityLabel(report), report.recommendations[1]>>

\* 2 * low + 5 * medium + 10 * high
Deductions(ledger) ==
    2 * CountSeverity(ledger, "low") + 5 * CountSeverity(ledger, "medium")
    + 10 * CountSeverity(ledger, "high")

\* C21: the tier shown for a score s is Excellent when s >= 90, Good when
\* 70 <= s <= 89, Moderate when 50 <= s <= 69 and Significant issues when
\* s < 50, the boundaries 90, 70 and 50 lying in the upper band; right after
\* an append, a ledger of one high event has score 90 and tier Excellent, and
\* a ledger whose deductions sum to 35 has score 65 and tier Moderate
\* Concerns.
C21_TierOfScore ==
    \A s \in DOMAIN sessions :
        LET score == sessions[s].integrityScore IN
        /\ score \in 90 .. 100 =>
               ShownTier(s) = <<"Excellent Integrity", TierExcellent>>
        /\ score \in 70 .. 89 =>
               ShownTier(s) = <<"Good Integrity", TierGood>>
        /\ score \in 50 .. 69 =>
               ShownTier(s) = <<"Moderate Concerns", TierModerate>>
        /\ score \in 0 .. 49 =>
               ShownTier(s) = <<"Significant Issues", TierSignificant>>
        /\ response = [route |-> "POST /api/events", status |-> 200] =>
               /\ (Len(events[s]) = 1 /\ events[s][1].severity = "high") =>
                      /\ score = 90
                      /\ ShownTier(s)[1] = "Excellent Integrity"
               /\ Deductions(events[s]) = 35 =>
                      /\ score = 65
                      /\ ShownTier(s)[1] = "Moderate Concerns"

\* C21 witness: three high events and a medium one have just taken a session
\* to 65, which is shown as Moderate Concerns.
C21_Witness ==
    \E s \in DOMAIN sessions :
        /\ response = [route |-> "POST /api/events", status |-> 200]
        /\ Deductions(events[s]) = 35
        /\ sessions[s].integrityScore = 65
        /\ ShownTier(s) = <<"Moderate Concerns", TierModerate>>

-----------------------------------------------------------------------------
\* Properties of the fields of a stored session.

\* C22: after any createSession or updateSession, with any partial fields,
\* the status of every stored session is active, completed or terminated.
C22_StatusInClosedSet ==
    \A s \in DOMAIN sessions :
        sessions[s].status \in {"active", "completed", "terminated"}

\* C29: after any createSession, updateSession with any partial fields, or
\* addEvent, the id field of every stored session equals the key it is
\* stored under.
C29_IdEqualsKey ==
    \A s \in DOMAIN sessions : sessions[s].id = s

-----------------------------------------------------------------------------
\* Properties of one presence/gaze tick.

\* The events the step adds to the displayed list.
EmittedByStep ==
    SubSeq(clientEvents', Len(clientEvents) + 1, Len(clientEvents'))

\* C28: a presence/gaze tick emits at most one event of each type and never
\* both a no_face and a multiple_faces event, so at most two events.
C28_AtMostOneEventPerType ==
    [][FaceTicked =>
          (/\ EmittedByStep = lastTick'[1].emitted
           /\ \A type \in validTypes : CountType(EmittedByStep, type) <= 1
           /\ ~(/\ CountType(EmittedByStep, "no_face") > 0
                /\ CountType(EmittedByStep, "multiple_faces") > 0)
           /\ Len(EmittedByStep) <= 2)]_vars

\* C28 witness: a tick that emits two events, no_face and focus_loss.
C28_Witness ==
    /\ lastTick # <<>>
    /\ Len(lastTick[1].emitted) = 2
    /\ CountType(lastTick[1].emitted, "no_face") = 1
    /\ CountType(lastTick[1].emitted, "focus_loss") = 1

-----------------------------------------------------------------------------
\* Properties of the away-gaze episode.

FocusLossEmitted == CountType(EmittedByStep, "focus_loss") > 0

\* C23: within one continuous run of away results, a focus_loss event is
\* emitted more than 5,000 ms after the run started and more than 5,000 ms
\* after the focus_loss event before it, and each emission resets the episode
\* start to the time of the emission.
C23_FocusLossSpacing ==
    [][(FaceTicked /\ FocusLossEmitted) =>
          (/\ lastTick'[1].result.isLookingAway
           /\ awayRun >= 1
           /\ episodeStartedAt # Null
           /\ lastTick'[1].at - episodeStartedAt > 5000
           /\ lastFocusLossAt # Null =>
                  lastTick'[1].at - lastFocusLossAt > 5000
           /\ faceDetectionStats'.lookAwayStartTime = lastTick'[1].at)]_vars

\* C23 witness: the second focus_loss event of a run of away results, 6,000
\* ms after the first.
C23_Witness ==
    /\ lastTick # <<>>
    /\ CountType(lastTick[1].emitted, "focus_loss") = 1
    /\ awayRunFocus = 2
    /\ lastFocusLossAt = lastTick[1].at
    /\ lastTick[1].at - episodeStartedAt = 12000
    /\ faceDetectionStats.lookAwayStartTime = lastTick[1].at

\* C24: after every presence/gaze tick lookAwayStartTime is null exactly
\* when the tick's isLookingAway is false; a tick with isLookingAway = false
\* emits no focus_loss, and the first away tick after a return to focus sets
\* the timer to its own time.
C24_TimerNullIffNotAway ==
    [][FaceTicked =>
          (/\ (faceDetectionStats'.lookAwayStartTime = Null)
                  <=> ~lastTick'[1].result.isLookingAway
           /\ ~lastTick'[1].result.isLookingAway => ~FocusLossEmitted
           /\ (lastTick'[1].result.isLookingAway /\ awayRun = 0) =>
                  faceDetectionStats'.lookAwayStartTime = lastTick'[1].at)]_vars

\* C24 witness: the first away tick of a second episode, after an episode
\* that had emitted focus_loss and a return to focus.
C24_Witness ==
    /\ lastTick # <<>>
    /\ lastTick[1].result.isLookingAway
    /\ awayRun = 1
    /\ awayRunFocus = 0
    /\ CountType(clientEvents, "focus_loss") >= 1
    /\ faceDetectionStats.lookAwayStartTime = lastTick[1].at

-----------------------------------------------------------------------------
\* Properties of the pollers' intervals.

\* C27: at every moment at most one interval is live for the presence/gaze
\* signal and at most one for the object signal, each the one its hook's ref
\* holds and the one whose ticks are due, and none is live while monitoring
\* is inactive.
C27_OneIntervalPerSignal ==
    /\ Cardinality(faceIntervals.live) <= 1
    /\ Cardinality(objectIntervals.live) <= 1
    /\ faceIntervals.live = {faceIntervals.ref} \ {Null}
    /\ objectIntervals.live = {objectIntervals.ref} \ {Null}
    /\ (faceTimer = Null) <=> (faceIntervals.live = {})
    /\ (objectTimer = Null) <=> (objectIntervals.live = {})
    /\ ~isRecording => (faceIntervals.live = {} /\ objectIntervals.live = {})

\* C27 witness: monitoring has stopped after a run in which both pollers
\* ticked, the object poller's interval set when its model loaded during the
\* run.
C27_Witness ==
    /\ ~isRecording
    /\ pc = "idle"
    /\ tickCount > 0
    /\ lastObjectTick # <<>>
    /\ faceIntervals = NoIntervals
    /\ objectIntervals = NoIntervals

-----------------------------------------------------------------------------
\* Properties of a failing detector.

-----------------------------------------------------------------------------
\* Properties of the session a run creates.

\* C30: whenever the client is not recording and no startRecording or
\* stopRecording is under way, every session the client has created is
\* completed and has an end time.
C30_CreatedSessionIsEnded ==
    (pc = "idle" /\ ~isRecording) =>
        \A s \in DOMAIN sessions :
            /\ sessions[s].status = "completed"
            /\ "endTime" \in DOMAIN sessions[s]

-----------------------------------------------------------------------------
\* Properties of successive monitoring runs.

\* C26: debounce state does not carry over from one monitoring run to the
\* next: a run starts with the last-seen-face timestamp at its start time
\* and no open away-gaze episode, and it emits no no_face event during its
\* first 10,000 ms and no focus_loss event during its first 5,000 ms.
C26_RunStartsAfresh ==
    [][/\ (pc = "acquiring" /\ pc' = "recording") =>
              (/\ faceDetectionStats'.lastFaceTime = clientNow'
               /\ faceDetectionStats'.lookAwayStartTime = Null
               /\ ~faceDetectionStats'.isLookingAway)
       /\ (FaceTicked /\ pc = "recording") =>
              (/\ CountType(EmittedByStep, "no_face") > 0 =>
                      lastTick'[1].at - runStartedAt > 10000
               /\ FocusLossEmitted =>
                      lastTick'[1].at - runStartedAt > 5000)]_vars

\* C26 witness: the first run ended on a tick that emitted no_face while the
\* candidate looked away; the first tick of the second run, again without a
\* face and looking away, emits nothing.
C26_Witness ==
    /\ Cardinality(DOMAIN sessions) = 2
    /\ pc = "recording"
    /\ lastTick # <<>>
    /\ lastTick[1].at = runStartedAt + 1000
    /\ lastTick[1].result = [faceCount |-> 0, isLookingAway |-> TRUE,
                             confidence |-> 120]
    /\ lastTick[1].emitted = <<>>
    /\ \E i \in 1 .. Len(clientEvents) :
           /\ clientEvents[i].type = "no_face"
           /\ clientEvents[i].timestamp = runStartedAt

====
